---- MODULE Spec2Model ----
(***************************************************************************)
(* CartMart storefront client (frontend/src/App.js): AuthProvider and      *)
(* CartProvider as a state machine.  The cart is kept either in the        *)
(* browser's localStorage under 'guestCart' (no resolved identity) or on   *)
(* the server (user and token both set).  Prices are integer cents.        *)
(***************************************************************************)
EXTENDS Integers, Sequences, FiniteSets, Bags, TLC

\* ------------------------------------------------------------------ bounds

\* Largest quantity a cart line may reach in the model.
MaxQty == 3
\* Largest magnitude of a negative line quantity in the model.
MaxNeg == 1
\* Largest quantity argument passed to addToCart / updateQuantity.
MaxArg == 2

\* Requests and responses in flight at once.
MaxInFlight == 2
\* The same, counting the two /auth/me requests (and the GET /cart) that follow
\* a successful login or register.
MaxAuthInFlight == 3
\* Orders the server mints in one behaviour.
MaxOrders == 2
\* Calls made by the user of the page (context calls, navigation) in one behaviour.
MaxInputs == 4
\* Largest line quantity and quantity argument in the scripted-session runs.
ScenarioQty == 4
ScenarioArg == 3

\* ----------------------------------------------------------------- catalog

\* Unit prices of the two catalog products used by the backend run, in cents.
PriceA == 2499
PriceB == 3499

ProductIds == {"A", "B"}

\* The product objects the catalog hands to ProductCard (id, name, price).
Catalog ==
  { [id |-> "A", name |-> "Bamboo Cutting Board", price |-> PriceA],
    [id |-> "B", name |-> "Ceramic Coffee Mug Set", price |-> PriceB] }

\* The product objects handed to ProductCard before and after a change of the
\* catalog's prices (each price one unit of currency higher).
Offers == Catalog \cup {[p EXCEPT !.price = @ + 100] : p \in Catalog}

\* Quantity arguments a caller of the cart context may pass.
QtyArgs == (0 - MaxNeg) .. MaxArg

\* ------------------------------------------------------------- cart values

\* useState({ items: [], total: 0 })
EmptyCart == [items |-> <<>>, total |-> 0]

\* null: no user, no token (localStorage.getItem('token') of an absent key)
Null == "null"

\* localStorage.getItem('guestCart') of an absent key (no stored text)
NoText == <<>>

\* items.find(item => item.product_id === pid): index of the first match, 0 if none
RECURSIVE FindFrom(_, _, _)
FindFrom(items, pid, i) ==
  IF i > Len(items) THEN 0
  ELSE IF items[i].product_id = pid THEN i
  ELSE FindFrom(items, pid, i + 1)

Find(items, pid) == FindFrom(items, pid, 1)

\* items.reduce((sum, item) => sum + (item.price * item.quantity), 0)
RECURSIVE ReduceTotal(_, _, _)
ReduceTotal(items, i, sum) ==
  IF i > Len(items) THEN sum
  ELSE ReduceTotal(items, i + 1, sum + (items[i].price * items[i].quantity))

ItemsTotal(items) == ReduceTotal(items, 1, 0)

\* items.filter(item => item.product_id !== pid)
FilterOut(items, pid) == SelectSeq(items, LAMBDA it : it.product_id # pid)

\* JSON.stringify(cartData): the stored text, modelled as the field values in
\* document order (items as tuples), not as the cart object itself.
JSONstringify(c) ==
  << [i \in 1 .. Len(c.items) |->
        << c.items[i].product_id, c.items[i].name,
           c.items[i].price, c.items[i].quantity >>],
     c.total >>

\* JSON.parse(savedCart)
JSONparse(s) ==
  [items |-> [i \in 1 .. Len(s[1]) |->
                [product_id |-> s[1][i][1], name |-> s[1][i][2],
                 price |-> s[1][i][3], quantity |-> s[1][i][4]]],
   total |-> s[2]]

\* (x).toFixed(2) of an amount of n/100 cents: the nearest cent
ToFixed2(n) == (n + 50) \div 100

\* CartPage order summary, "Tax:" row: (cart.total * 0.08).toFixed(2)
TaxShown(c) == ToFixed2(c.total * 8)

\* CartPage order summary, "Total:" row: (cart.total * 1.08).toFixed(2)
TotalShown(c) == ToFixed2(c.total * 108)

\* ------------------------------------------------ guest cart (CartProvider)

\* Mutant of GuestAdd: the total is patched by one unit price, not recomputed
GuestAdd_PatchTotal(c, product, q) ==
  LET i == Find(c.items, product.id)
      items2 == IF i # 0
                THEN [c.items EXCEPT ![i].quantity = @ + q]
                ELSE Append(c.items,
                            [product_id |-> product.id, name |-> product.name,
                             price |-> product.price, quantity |-> q])
  IN [items |-> items2, total |-> c.total + product.price]

\* Mutant of GuestAdd: an existing line takes the price of the product given
GuestAdd_Reprice(c, product, q) ==
  LET i == Find(c.items, product.id)
      items2 == IF i # 0
                THEN [c.items EXCEPT ![i].quantity = @ + q, ![i].price = product.price]
                ELSE Append(c.items,
                            [product_id |-> product.id, name |-> product.name,
                             price |-> product.price, quantity |-> q])
  IN [items |-> items2, total |-> ItemsTotal(items2)]

\* Mutant of GuestAdd: a line is pushed even when the product already has one
GuestAdd_AlwaysPush(c, product, q) ==
  LET items2 == Append(c.items,
                       [product_id |-> product.id, name |-> product.name,
                        price |-> product.price, quantity |-> q])
  IN [items |-> items2, total |-> ItemsTotal(items2)]

\* Mutant of GuestAdd: the quantity of an existing line is replaced, not added to
GuestAdd_Replace(c, product, q) ==
  LET i == Find(c.items, product.id)
      items2 == IF i # 0
                THEN [c.items EXCEPT ![i].quantity = q]
                ELSE Append(c.items,
                            [product_id |-> product.id, name |-> product.name,
                             price |-> product.price, quantity |-> q])
  IN [items |-> items2, total |-> ItemsTotal(items2)]

\* addToCart, guest branch: the new cart
GuestAdd(c, product, q) ==
  LET i == Find(c.items, product.id)
      items2 == IF i # 0
                THEN [c.items EXCEPT ![i].quantity = @ + q]
                ELSE Append(c.items,
                            [product_id |-> product.id, name |-> product.name,
                             price |-> product.price, quantity |-> q])
  IN [items |-> items2, total |-> ItemsTotal(items2)]

\* Mutant of GuestUpdate: the total is not recomputed
GuestUpdate_StaleTotal(c, pid, q) ==
  LET i == Find(c.items, pid)
      items2 == IF q <= 0 THEN FilterOut(c.items, pid)
                ELSE IF i # 0 THEN [c.items EXCEPT ![i].quantity = q]
                ELSE c.items
  IN [items |-> items2, total |-> c.total]

\* Mutant of GuestUpdate: the quantity is added to the line's, not set
GuestUpdate_Adds(c, pid, q) ==
  LET i == Find(c.items, pid)
      items2 == IF q <= 0 THEN FilterOut(c.items, pid)
                ELSE IF i # 0 THEN [c.items EXCEPT ![i].quantity = @ + q]
                ELSE c.items
  IN [items |-> items2, total |-> ItemsTotal(items2)]

\* Mutant of GuestUpdate: only a negative quantity removes the line
GuestUpdate_ZeroKept(c, pid, q) ==
  LET i == Find(c.items, pid)
      items2 == IF q < 0 THEN FilterOut(c.items, pid)
                ELSE IF i # 0 THEN [c.items EXCEPT ![i].quantity = q]
                ELSE c.items
  IN [items |-> items2, total |-> ItemsTotal(items2)]

\* Mutant of GuestUpdate: a missing line is created
GuestUpdate_Upsert(c, pid, q) ==
  LET i == Find(c.items, pid)
      items2 == IF q <= 0 THEN FilterOut(c.items, pid)
                ELSE IF i # 0 THEN [c.items EXCEPT ![i].quantity = q]
                ELSE Append(c.items,
                            [product_id |-> pid, name |-> "", price |-> 0,
                             quantity |-> q])
  IN [items |-> items2, total |-> ItemsTotal(items2)]

\* updateQuantity, guest branch: the new cart
GuestUpdate(c, pid, q) ==
  LET i == Find(c.items, pid)
      items2 == IF q <= 0 THEN FilterOut(c.items, pid)
                ELSE IF i # 0 THEN [c.items EXCEPT ![i].quantity = q]
                ELSE c.items
  IN [items |-> items2, total |-> ItemsTotal(items2)]

\* Mutant of GuestRemove: items.splice(items.findIndex(...), 1), which drops the
\* last line when the product has none
GuestRemove_Splice(c, pid) ==
  LET i == Find(c.items, pid)
      k == IF i # 0 THEN i ELSE Len(c.items)
      items2 == [j \in 1 .. (IF Len(c.items) = 0 THEN 0 ELSE Len(c.items) - 1) |->
                   IF j < k THEN c.items[j] ELSE c.items[j + 1]]
  IN [items |-> items2, total |-> ItemsTotal(items2)]

\* removeFromCart, guest branch: the new cart
GuestRemove(c, pid) ==
  LET items2 == FilterOut(c.items, pid)
  IN [items |-> items2, total |-> ItemsTotal(items2)]

\* Mutant of GuestOrder: the total is read after the cart was cleared
GuestOrder_AfterClear(c) ==
  [order_id |-> "guest-", total |-> 0,
   message |-> "Order placed successfully! (Guest checkout)"]

\* Mutant of GuestOrder: the total is the one the order summary displays
GuestOrder_WithTax(c) ==
  [order_id |-> "guest-", total |-> TotalShown(c),
   message |-> "Order placed successfully! (Guest checkout)"]

\* checkout, guest branch: the order data returned ('guest-' + Date.now() is
\* kept as its tag; the clock value is not modelled)
GuestOrder(c) ==
  [order_id |-> "guest-", total |-> c.total,
   message |-> "Order placed successfully! (Guest checkout)"]

\* Mutant of GuestCheckoutCart: the cart state is left as it was
GuestCheckoutCart_Keeps(c) == c

\* checkout, guest branch: the cart set afterwards
GuestCheckoutCart(c) == EmptyCart

\* loadCart, guest branch: the cart after it ran against the stored value g
GuestLoad(c, g) == IF g # NoText THEN JSONparse(g) ELSE c

\* Mutant of CartAfterResponse: a failed request empties the cart
CartAfterResponse_DropsOnError(c, m) ==
  IF m.stage = "ok" THEN m.data ELSE EmptyCart

\* try { setCart(response.data) } catch { console.error(...) }: the cart state
\* after the response m to a cart request arrived
CartAfterResponse(c, m) ==
  IF m.stage = "ok" THEN m.data ELSE c

\* Mutant of SaveGuestCart: only the lines are stored, the total is not
SaveGuestCart_LinesOnly(c) == JSONstringify([c EXCEPT !.total = 0])

\* saveGuestCart(cartData): the new value of the 'guestCart' key
SaveGuestCart(c) == JSONstringify(c)

\* --------------------------------------------- server cart (durable store)

\* POST /cart/add: quantity is added to an existing line, else a line with the
\* catalog snapshot is appended; the total is recomputed from the lines.
SrvAdd(c, product, q) ==
  LET i == Find(c.items, product.id)
      items2 == IF i # 0
                THEN [c.items EXCEPT ![i].quantity = @ + q]
                ELSE Append(c.items,
                            [product_id |-> product.id, name |-> product.name,
                             price |-> product.price, quantity |-> q])
  IN [items |-> items2, total |-> ItemsTotal(items2)]

\* PUT /cart/update: quantity <= 0 removes the line, a missing line is a no-op.
SrvUpdate(c, pid, q) ==
  LET i == Find(c.items, pid)
      items2 == IF q <= 0 THEN FilterOut(c.items, pid)
                ELSE IF i # 0 THEN [c.items EXCEPT ![i].quantity = q]
                ELSE c.items
  IN [items |-> items2, total |-> ItemsTotal(items2)]

\* DELETE /cart/remove/{product_id}
SrvRemove(c, pid) ==
  LET items2 == FilterOut(c.items, pid)
  IN [items |-> items2, total |-> ItemsTotal(items2)]

\* POST /cart/checkout: the confirmation returned for cart c
SrvOrder(c) ==
  [order_id |-> "order-", total |-> c.total,
   message |-> "Order placed successfully!"]

\* The catalog product with the given id
ProductOf(pid) == CHOOSE p \in Catalog : p.id = pid

\* Whether the server accepts the request (InvalidInput, EmptyCart otherwise)
SrvAccepts(c, m) ==
  CASE m.kind = "add" -> m.qty >= 1
    [] m.kind = "checkout" -> c.items # <<>>
    [] OTHER -> TRUE

\* The server cart after an accepted request
SrvCartAfter(c, m) ==
  CASE m.kind = "add" -> SrvAdd(c, ProductOf(m.pid), m.qty)
    [] m.kind = "update" -> SrvUpdate(c, m.pid, m.qty)
    [] m.kind = "remove" -> SrvRemove(c, m.pid)
    [] m.kind = "checkout" -> EmptyCart
    [] OTHER -> c

\* ------------------------------------------------------------------- state

VARIABLES
  user,            \* AuthProvider: useState(null)
  token,           \* AuthProvider: useState(localStorage.getItem('token'))
  lsToken,         \* localStorage 'token'
  cart,            \* CartProvider: useState({ items: [], total: 0 })
  rendered,        \* the cart of the last render, which the handlers close over
  cartLoading,     \* CartProvider: useState(false)
  guestCart,       \* localStorage 'guestCart' (stored text, NoText if absent)
  orderComplete,   \* CartPage: useState(null)
  checkoutLoading, \* CartPage: useState(false)
  net,             \* axios requests and responses in flight
  serverCart,      \* the server's cart of the account
  orders,          \* number of orders in the server's order history
  last,            \* history: the last cart operation and its input
  minted,          \* the server's order history: the Order minted last
  inputs,          \* history: number of calls made by the user of the page
  script           \* history: calls of the scripted session matched so far

vars == << user, token, lsToken, cart, rendered, cartLoading, guestCart,
           orderComplete, checkoutLoading, net, serverCart, orders, last, minted,
           inputs, script >>

\* orderComplete = null; also the order field of a message that carries none
NoOrder == [order_id |-> "", total |-> 0, message |-> ""]

\* The history record: the operation that produced the current cart (op, its
\* arguments, the cart it ran on, the order it returned) and, when the operation
\* before it was the same one on the same product, that operation's quantity and
\* the cart it ran on (pop, pqty, ppre); price is the price of the product object
\* given to an add.  An add of an authenticated session is recorded when it is
\* sent (addSent), when the request fails or is rejected (addRejected) and when
\* the failure reaches the page (addFailed).  For the first load of the cart after
\* the session became authenticated (op signIn, then signInServed once the server
\* answered the load, then signInLoaded once the answer was applied) pre is the
\* stored anonymous cart and ppre the server's cart at that moment.  For a logout
\* of an authenticated session (op logout) pre is the cart the session showed,
\* and the operation after it carries that cart on (pop logout, ppre).
NoLast == [op |-> "none", pid |-> "", qty |-> 0, price |-> 0, pre |-> EmptyCart,
           order |-> NoOrder, pop |-> "none", pqty |-> 0, ppre |-> EmptyCart]

\* The Order the server mints from cart c at checkout: a copy of its lines and
\* total, status completed
SrvMint(c) == [lines |-> c.items, total |-> c.total, status |-> "completed"]

Record(old, op, pid, qty, pre, order) ==
  LET same == old.op = op /\ old.pid = pid /\ op \in {"add", "remove"}
      out == old.op = "logout"
  IN [op |-> op, pid |-> pid, qty |-> qty, price |-> 0, pre |-> pre,
      order |-> order,
      pop |-> IF same THEN op ELSE IF out THEN "logout" ELSE "none",
      pqty |-> IF same THEN old.qty ELSE 0,
      ppre |-> IF same \/ out THEN old.pre ELSE EmptyCart]

\* A request of the current page (live) in flight
Req(kind, cont, pid, qty) ==
  [kind |-> kind, stage |-> "req", cont |-> cont, pid |-> pid, qty |-> qty,
   data |-> EmptyCart, order |-> NoOrder, live |-> TRUE]

\* Number of further requests that may be put in flight
Room(n) == MaxInFlight - BagCardinality(n)

\* The same, for the requests that follow a successful login or register
AuthRoom(n) == MaxAuthInFlight - BagCardinality(n)

\* axios call: the request is in flight
Send(n, m) == n (+) SetToBag({m})

\* The message was taken off the wire
Take(n, m) == n (-) SetToBag({m})

\* Requests that change the server's state
Mutating == {"add", "update", "remove", "checkout"}

\* Model bound on line quantities
Within(c) ==
  \A i \in 1 .. Len(c.items) :
    c.items[i].quantity \in (0 - MaxNeg) .. MaxQty

\* Mutant of Authenticated: a token alone selects the server
Authenticated_TokenOnly == token # Null

\* user && token
Authenticated == user # Null /\ token # Null

Init ==
  /\ user = Null
  /\ lsToken = Null
  /\ token = lsToken
  /\ cart = EmptyCart
  /\ rendered = cart
  /\ cartLoading = FALSE
  /\ guestCart = NoText
  /\ orderComplete = NoOrder
  /\ checkoutLoading = FALSE
  /\ net = EmptyBag
  /\ serverCart = EmptyCart
  /\ orders = 0
  /\ minted = SrvMint(EmptyCart)
  /\ last = NoLast
  /\ inputs = 0
  /\ script = 0

\* --------------------------------------------------- CartProvider operations

\* addToCart(product, quantity)
AddToCart(product, q) ==
  IF Authenticated
  THEN /\ Room(net) >= 1
       /\ net' = Send(net, Req("add", "cart", product.id, q))
       /\ cartLoading' = TRUE
       /\ last' = [NoLast EXCEPT !.op = "addSent", !.pid = product.id, !.qty = q]
       /\ UNCHANGED << user, token, lsToken, cart, guestCart, orderComplete,
                       checkoutLoading, serverCart, orders, minted >>
  ELSE /\ cart' = GuestAdd(rendered, product, q)
       /\ guestCart' = SaveGuestCart(cart')
       /\ cartLoading' = FALSE
       /\ last' = [Record(last, "add", product.id, q, rendered, NoOrder)
                     EXCEPT !.price = product.price]
       /\ UNCHANGED << user, token, lsToken, orderComplete, checkoutLoading,
                       net, serverCart, orders, minted >>

\* updateQuantity(productId, quantity)
UpdateQuantity(pid, q) ==
  IF Authenticated
  THEN /\ Room(net) >= 1
       /\ net' = Send(net, Req("update", "cart", pid, q))
       /\ cartLoading' = TRUE
       /\ last' = [NoLast EXCEPT !.op = "updateSent", !.pid = pid, !.qty = q]
       /\ UNCHANGED << user, token, lsToken, cart, guestCart, orderComplete,
                       checkoutLoading, serverCart, orders, minted >>
  ELSE /\ cart' = GuestUpdate(rendered, pid, q)
       /\ guestCart' = SaveGuestCart(cart')
       /\ cartLoading' = FALSE
       /\ last' = Record(last, "update", pid, q, rendered, NoOrder)
       /\ UNCHANGED << user, token, lsToken, orderComplete, checkoutLoading,
                       net, serverCart, orders, minted >>

\* removeFromCart(productId)
RemoveFromCart(pid) ==
  IF Authenticated
  THEN /\ Room(net) >= 1
       /\ net' = Send(net, Req("remove", "cart", pid, 0))
       /\ cartLoading' = TRUE
       /\ last' = [NoLast EXCEPT !.op = "removeSent", !.pid = pid]
       /\ UNCHANGED << user, token, lsToken, cart, guestCart, orderComplete,
                       checkoutLoading, serverCart, orders, minted >>
  ELSE /\ cart' = GuestRemove(rendered, pid)
       /\ guestCart' = SaveGuestCart(cart')
       /\ cartLoading' = FALSE
       /\ last' = Record(last, "remove", pid, 0, rendered, NoOrder)
       /\ UNCHANGED << user, token, lsToken, orderComplete, checkoutLoading,
                       net, serverCart, orders, minted >>

\* The Checkout button of CartPage is rendered and enabled
CheckoutButton ==
  /\ orderComplete = NoOrder
  /\ rendered.items # <<>>
  /\ ~checkoutLoading

\* Orders already minted or asked for
OrdersAsked ==
  orders + BagCardinality([m \in {x \in BagToSet(net) :
                                    x.kind = "checkout" /\ x.stage = "req"}
                            |-> net[m]])

\* checkout(): viaPage is CartPage.handleCheckout (button rendered, result kept in
\* orderComplete); otherwise a direct call of the context's checkout.
Checkout(viaPage) ==
  /\ viaPage => CheckoutButton
  /\ IF Authenticated
     THEN /\ Room(net) >= 1
          /\ OrdersAsked < MaxOrders
          /\ net' = Send(net, Req("checkout", IF viaPage THEN "page" ELSE "direct", "", 0))
          /\ checkoutLoading' = (viaPage \/ checkoutLoading)
          /\ last' = [NoLast EXCEPT !.op = "checkoutSent"]
          /\ UNCHANGED << user, token, lsToken, cart, cartLoading, guestCart,
                          orderComplete, serverCart, orders, minted >>
     ELSE /\ cart' = GuestCheckoutCart(rendered)
          /\ guestCart' = NoText
          /\ orderComplete' = IF viaPage THEN GuestOrder(rendered) ELSE orderComplete
          /\ checkoutLoading' = IF viaPage THEN FALSE ELSE checkoutLoading
          /\ last' = Record(last, "checkout", "", 0, rendered, GuestOrder(rendered))
          /\ UNCHANGED << user, token, lsToken, cartLoading, net, serverCart,
                          orders, minted >>

\* ------------------------------------------------------ page and AuthProvider

\* A fresh page load (window.location.href = '/', or any <a href> navigation):
\* React state is rebuilt, token from localStorage; the old page's responses are
\* never delivered, its unanswered mutating requests may still reach the server.
\* On mount loadCart runs with user = null, and checkAuth asks /auth/me if a
\* token is stored.  n is the traffic at the moment of the load.
DoReload(n) ==
  LET sent == {m \in BagToSet(n) : m.stage = "req" /\ m.kind \in Mutating}
      kept == [m \in {[x EXCEPT !.live = FALSE] : x \in sent} |->
                 (IF m \in sent THEN n[m] ELSE 0)
                 + (IF [m EXCEPT !.live = TRUE] \in sent
                    THEN n[[m EXCEPT !.live = TRUE]] ELSE 0)]
  IN /\ user' = Null
     /\ token' = lsToken
     /\ cart' = GuestLoad(EmptyCart, guestCart)
     /\ cartLoading' = FALSE
     /\ orderComplete' = NoOrder
     /\ checkoutLoading' = FALSE
     /\ IF lsToken # Null
        THEN /\ Room(kept) >= 1
             /\ net' = Send(kept, Req("me", "checkAuth", "", 0))
        ELSE net' = kept
     /\ last' = NoLast
     /\ UNCHANGED << lsToken, guestCart, serverCart, orders, minted >>

Reload == DoReload(net)

\* login(email, password): the POST /auth/login is sent
Login ==
  /\ Room(net) >= 1
  /\ net' = Send(net, Req("login", "login", "", 0))
  /\ last' = NoLast
  /\ UNCHANGED << user, token, lsToken, cart, cartLoading, guestCart,
                  orderComplete, checkoutLoading, serverCart, orders, minted >>

\* register(email, password, name): the POST /auth/register is sent
Register ==
  /\ Room(net) >= 1
  /\ net' = Send(net, Req("register", "login", "", 0))
  /\ last' = NoLast
  /\ UNCHANGED << user, token, lsToken, cart, cartLoading, guestCart,
                  orderComplete, checkoutLoading, serverCart, orders, minted >>

\* logout() followed by the effects of the render it causes: loadCart runs again
\* (in its guest branch) when user or token changed.  n is the traffic left.
DoLogout(n) ==
  /\ user' = Null
  /\ token' = Null
  /\ lsToken' = Null
  /\ cart' = IF user # Null \/ token # Null THEN GuestLoad(cart, guestCart) ELSE cart
  /\ net' = n
  /\ last' = IF Authenticated
             THEN [NoLast EXCEPT !.op = "logout", !.pre = cart]
             ELSE NoLast
  /\ UNCHANGED << cartLoading, guestCart, orderComplete, checkoutLoading,
                  serverCart, orders, minted >>

\* The Logout button of Header (rendered when user is set)
Logout ==
  /\ user # Null
  /\ DoLogout(net)

\* The response to login / register arrives.  On success: setToken, the token is
\* stored, /auth/me is asked; the render then runs checkAuth (a second /auth/me)
\* and loadCart.
RecvAuth(m) ==
  /\ m.kind \in {"login", "register"}
  /\ m.stage \in {"ok", "err"}
  /\ LET n0 == Take(net, m) IN
     IF m.stage = "ok"
     THEN /\ token' = "t1"
          /\ lsToken' = "t1"
          /\ AuthRoom(n0) >= (IF user # Null THEN 3 ELSE 2)
          /\ LET n1 == Send(n0, Req("me", "login", "", 0))
                 n2 == Send(n1, Req("me", "checkAuth", "", 0))
             IN IF user # Null
                THEN /\ net' = Send(n2, Req("getCart", "cart", "", 0))
                     /\ cart' = cart
                ELSE /\ net' = n2
                     /\ cart' = GuestLoad(cart, guestCart)
          /\ last' = NoLast
          /\ UNCHANGED << user, cartLoading, guestCart, orderComplete,
                          checkoutLoading, serverCart, orders, minted >>
     ELSE /\ net' = n0
          /\ last' = NoLast
          /\ UNCHANGED << user, token, lsToken, cart, cartLoading, guestCart,
                          orderComplete, checkoutLoading, serverCart, orders, minted >>

\* The response to /auth/me arrives: in login/register (cont "login") or in
\* checkAuth (cont "checkAuth").
RecvMe(m) ==
  /\ m.kind = "me"
  /\ m.stage \in {"ok", "err"}
  /\ LET n0 == Take(net, m) IN
     CASE m.stage = "ok" /\ m.cont = "login" ->
            \* setUser; login returns true and the page navigates to '/'
            DoReload(n0)
       [] m.stage = "ok" /\ m.cont = "checkAuth" ->
            \* setUser(response.data): a new object, so loadCart runs again
            /\ user' = "u1"
            /\ IF token # Null
               THEN /\ net' = Send(n0, Req("getCart", "cart", "", 0))
                    /\ cart' = cart
               ELSE /\ net' = n0
                    /\ cart' = GuestLoad(cart, guestCart)
            /\ last' = IF token # Null /\ user = Null
                       THEN [NoLast EXCEPT !.op = "signIn",
                                           !.pre = GuestLoad(EmptyCart, guestCart),
                                           !.ppre = serverCart]
                       ELSE NoLast
            /\ UNCHANGED << token, lsToken, cartLoading, guestCart, orderComplete,
                            checkoutLoading, serverCart, orders, minted >>
       [] m.stage = "err" /\ m.cont = "checkAuth" ->
            DoLogout(n0)
       [] OTHER ->
            /\ net' = n0
            /\ last' = NoLast
            /\ UNCHANGED << user, token, lsToken, cart, cartLoading, guestCart,
                            orderComplete, checkoutLoading, serverCart, orders, minted >>

\* The response to GET /cart, add, update or remove arrives: setCart(response.data)
\* on success; the three mutations then setCartLoading(false).
RecvCart(m) ==
  /\ m.kind \in {"getCart", "add", "update", "remove"}
  /\ m.stage \in {"ok", "err"}
  /\ cart' = CartAfterResponse(cart, m)
  /\ cartLoading' = IF m.kind = "getCart" THEN cartLoading ELSE FALSE
  /\ net' = Take(net, m)
  /\ last' = IF last.op = "signInServed" /\ m.kind = "getCart" /\ m.stage = "ok"
             THEN [last EXCEPT !.op = "signInLoaded"]
             ELSE IF m.kind = "add" /\ m.stage = "err"
             THEN [NoLast EXCEPT !.op = "addFailed", !.pid = m.pid, !.qty = m.qty]
             ELSE IF m.stage = "ok"
             THEN [NoLast EXCEPT !.op = "cartResponse"]
             ELSE NoLast
  /\ UNCHANGED << user, token, lsToken, guestCart, orderComplete,
                  checkoutLoading, serverCart, orders, minted >>

\* Mutant of CartAfterCheckout: the cart is cleared whatever the answer
CartAfterCheckout_AlwaysClears(c, m) == EmptyCart

\* checkout, authenticated branch: the cart state after the awaited POST
\* settled; setCart({ items: [], total: 0 }) runs only when it resolved
CartAfterCheckout(c, m) == IF m.stage = "ok" THEN EmptyCart ELSE c

\* The response to POST /cart/checkout arrives: the cart is cleared and the
\* confirmation returned (kept in orderComplete by handleCheckout); a failure is
\* rethrown and caught by handleCheckout.
RecvCheckout(m) ==
  /\ m.kind = "checkout"
  /\ m.stage \in {"ok", "err"}
  /\ cart' = CartAfterCheckout(cart, m)
  /\ orderComplete' = IF m.stage = "ok" /\ m.cont = "page"
                      THEN m.order ELSE orderComplete
  /\ checkoutLoading' = IF m.cont = "page" THEN FALSE ELSE checkoutLoading
  /\ net' = Take(net, m)
  /\ last' = IF m.stage = "ok"
             THEN Record(last, "recvCheckout", "", 0, cart, m.order)
             ELSE [NoLast EXCEPT !.op = "checkoutFailed", !.pre = cart]
  /\ UNCHANGED << user, token, lsToken, cartLoading, guestCart, serverCart,
                  orders, minted >>

\* --------------------------------------------------------------- the server

\* The server handles a request: an accepted mutation is applied to the stored
\* cart and the new snapshot returned; a request it does not accept is answered
\* with an error.  A request of a page that is gone gets no response.
ServerHandle(m) ==
  /\ m.stage = "req"
  /\ LET ok == SrvAccepts(serverCart, m)
         after == IF ok THEN SrvCartAfter(serverCart, m) ELSE serverCart
         resp == [m EXCEPT !.stage = IF ok THEN "ok" ELSE "err",
                           !.data = after,
                           !.order = IF ok /\ m.kind = "checkout"
                                     THEN SrvOrder(serverCart) ELSE NoOrder]
     IN /\ Within(after)
        /\ serverCart' = after
        /\ orders' = IF ok /\ m.kind = "checkout" THEN orders + 1 ELSE orders
        /\ minted' = IF ok /\ m.kind = "checkout" THEN SrvMint(serverCart) ELSE minted
        /\ net' = IF m.live THEN Send(Take(net, m), resp) ELSE Take(net, m)
        /\ last' = IF ok /\ m.kind = "checkout"
                   THEN Record(last, "srvCheckout", "", 0, serverCart, SrvOrder(serverCart))
                   ELSE IF last.op = "signIn" /\ m.kind = "getCart" /\ m.live
                   THEN [last EXCEPT !.op = "signInServed"]
                   ELSE IF ~ok /\ m.kind = "add"
                   THEN [NoLast EXCEPT !.op = "addRejected", !.pid = m.pid,
                                       !.qty = m.qty]
                   ELSE NoLast
  /\ UNCHANGED << user, token, lsToken, cart, cartLoading, guestCart,
                  orderComplete, checkoutLoading >>

\* The request fails (network error, token rejected): nothing changes on the server
ServerFail(m) ==
  /\ m.stage = "req"
  /\ net' = IF m.live THEN Send(Take(net, m), [m EXCEPT !.stage = "err"])
            ELSE Take(net, m)
  /\ last' = IF m.kind = "add"
             THEN [NoLast EXCEPT !.op = "addRejected", !.pid = m.pid, !.qty = m.qty]
             ELSE NoLast
  /\ UNCHANGED << user, token, lsToken, cart, cartLoading, guestCart,
                  orderComplete, checkoutLoading, serverCart, orders, minted >>

\* ------------------------------------------------------------ specification

\* The state change is rendered: the handlers of the next call close over the
\* new cart
Rendering == rendered' = cart'

\* A call made by the user of the page, rendered before the next step
Input(A) ==
  inputs < MaxInputs /\ A /\ inputs' = inputs + 1 /\ Rendering /\ UNCHANGED script

\* A step of the network, the server or a continuation, rendered before the next
Step(A) == A /\ Rendering /\ UNCHANGED << inputs, script >>

Next ==
  \/ \E p \in Catalog, q \in QtyArgs : Input(AddToCart(p, q) /\ Within(cart'))
  \/ \E pid \in ProductIds, q \in QtyArgs : Input(UpdateQuantity(pid, q))
  \/ \E pid \in ProductIds : Input(RemoveFromCart(pid))
  \/ \E viaPage \in BOOLEAN : Input(Checkout(viaPage))
  \/ Input(Reload)
  \/ Input(Login)
  \/ Input(Register)
  \/ Input(Logout)
  \/ \E m \in BagToSet(net) : Step(RecvAuth(m))
  \/ \E m \in BagToSet(net) : Step(RecvMe(m))
  \/ \E m \in BagToSet(net) : Step(RecvCart(m))
  \/ \E m \in BagToSet(net) : Step(RecvCheckout(m))
  \/ \E m \in BagToSet(net) : Step(ServerHandle(m))
  \/ \E m \in BagToSet(net) : Step(ServerFail(m))

Spec == Init /\ [][Next]_vars

\* An anonymous session: nobody signs in, so user and token stay null and every
\* cart operation takes its guest branch.  The number of calls is not bounded.
NextGuest ==
  \/ \E p \in Catalog, q \in QtyArgs : Step(AddToCart(p, q) /\ Within(cart'))
  \/ \E pid \in ProductIds, q \in QtyArgs : Step(UpdateQuantity(pid, q))
  \/ \E pid \in ProductIds : Step(RemoveFromCart(pid))
  \/ \E viaPage \in BOOLEAN : Step(Checkout(viaPage))
  \/ Step(Reload)

SpecGuest == Init /\ [][NextGuest]_vars

\* The scripted session of the backend run, in the cart context's terms:
\* add A x 2, add B x 1, update A to 3, remove B, add A x 1, checkout.
ScenarioSteps ==
  << << "add", "A", 2 >>, << "add", "B", 1 >>, << "update", "A", 3 >>,
     << "remove", "B", 0 >>, << "add", "A", 1 >>, << "checkout", "", 0 >> >>

\* The value of script once a call departed from the script
OffScript == Len(ScenarioSteps) + 1

ScenarioArgs == 1 .. ScenarioArg

\* Model bound on line quantities in the scripted-session runs
WithinScenario(c) ==
  \A i \in 1 .. Len(c.items) : c.items[i].quantity \in 0 .. ScenarioQty

\* A call of an anonymous session, followed against the script
Scripted(A, op, pid, q) ==
  /\ A
  /\ WithinScenario(cart')
  /\ script' = IF script < Len(ScenarioSteps) /\ ScenarioSteps[script + 1] = << op, pid, q >>
               THEN script + 1 ELSE OffScript
  /\ Rendering
  /\ UNCHANGED inputs

\* An anonymous session whose calls either follow the script or depart from it
NextScenario ==
  \/ \E p \in Catalog, q \in ScenarioArgs : Scripted(AddToCart(p, q), "add", p.id, q)
  \/ \E pid \in ProductIds, q \in ScenarioArgs :
        Scripted(UpdateQuantity(pid, q), "update", pid, q)
  \/ \E pid \in ProductIds : Scripted(RemoveFromCart(pid), "remove", pid, 0)
  \/ \E viaPage \in BOOLEAN : Scripted(Checkout(viaPage), "checkout", "", 0)

SpecScenario == Init /\ [][NextScenario]_vars

\* An anonymous session during which the catalog's prices change: the product
\* given to addToCart carries the old or the new price.
NextReprice ==
  \/ \E p \in Offers, q \in QtyArgs : Step(AddToCart(p, q) /\ Within(cart'))
  \/ \E pid \in ProductIds, q \in QtyArgs : Step(UpdateQuantity(pid, q))
  \/ \E pid \in ProductIds : Step(RemoveFromCart(pid))
  \/ Step(Reload)

SpecReprice == Init /\ [][NextReprice]_vars

\* A call of an anonymous session made before the previous state change was
\* rendered (a second call from one handler, from the same closure).  newCart is
\* a shallow copy of the closure's cart: with inPlace its items array is the
\* closure's own (push, item.quantity = ...), so the closure's cart has the new
\* items under its old total; filter() gives a new array and leaves it alone.
Called(A, inPlace) ==
  /\ inputs < MaxInputs
  /\ A
  /\ inputs' = inputs + 1
  /\ rendered' = IF inPlace THEN [rendered EXCEPT !.items = cart'.items] ELSE rendered
  /\ UNCHANGED script

\* React renders the pending state change
Render ==
  /\ rendered # cart
  /\ rendered' = cart
  /\ UNCHANGED << user, token, lsToken, cart, cartLoading, guestCart,
                  orderComplete, checkoutLoading, net, serverCart, orders, last,
                  minted, inputs, script >>

\* An anonymous session in which a render may or may not come between two calls
NextRender ==
  \/ \E p \in Catalog, q \in QtyArgs : Called(AddToCart(p, q) /\ Within(cart'), TRUE)
  \/ \E pid \in ProductIds, q \in QtyArgs : Called(UpdateQuantity(pid, q), q > 0)
  \/ \E pid \in ProductIds : Called(RemoveFromCart(pid), FALSE)
  \/ \E viaPage \in BOOLEAN : Called(Checkout(viaPage), FALSE)
  \/ Render

SpecRender == Init /\ [][NextRender]_vars

\* ------------------------------------------------------------------ claims

\* Sum over the lines of price x quantity
RECURSIVE LineSum(_)
LineSum(items) ==
  IF items = <<>> THEN 0
  ELSE (Head(items).price * Head(items).quantity) + LineSum(Tail(items))

\* The carts the session holds: CartProvider's state and the stored guest cart
HeldCarts ==
  {cart} \cup (IF guestCart # NoText THEN {JSONparse(guestCart)} ELSE {})

\* Number of lines of c for product pid
LinesOf(c, pid) ==
  Cardinality({i \in 1 .. Len(c.items) : c.items[i].product_id = pid})

\* C1: in every reachable state the cart held by CartProvider and the cart stored
\* under 'guestCart' have total equal to the sum over their items of
\* price x quantity.
C1_TotalInvariant ==
  \A c \in HeldCarts : c.total = LineSum(c.items)

\* C1 witness: an update has changed a line of a two-line cart, and the changed
\* cart is both held and stored.
C1_Witness ==
  /\ last.op = "update"
  /\ Len(cart.items) = 2
  /\ cart.total # last.pre.total
  /\ guestCart # NoText
  /\ JSONparse(guestCart) = cart

\* C2: in every reachable cart no two items share the same product_id.
C2_UniqueProducts ==
  \A c \in HeldCarts : \A pid \in ProductIds : LinesOf(c, pid) <= 1

\* C2 witness: a product that already had a line was added again, beside a line
\* of the other product.
C2_Witness ==
  /\ last.op = "add"
  /\ Find(last.pre.items, last.pid) # 0
  /\ Len(cart.items) = 2
  /\ JSONparse(guestCart) = cart

\* C3 (as claimed): every item of every reachable cart has quantity >= 1.
C3_QuantityAtLeastOne ==
  \A c \in HeldCarts : \A i \in 1 .. Len(c.items) : c.items[i].quantity >= 1

\* C3 (as claimed) fails on addToCart(product, 0) in an anonymous session: the
\* guest branch pushes the line with the quantity it was given.

\* C4: addToCart(p, q1) followed by addToCart(p, q2), p having no line before,
\* yields exactly one line for p with quantity q1 + q2 and a total reflecting it,
\* and the cart is the one the two adds give in the other order.
C4_MergeLaw ==
  (last.op = "add" /\ last.pop = "add" /\ Find(last.ppre.items, last.pid) = 0) =>
    LET p == ProductOf(last.pid)
        c0 == last.ppre
        q1 == last.pqty
        q2 == last.qty
        i == Find(cart.items, p.id)
    IN /\ LinesOf(cart, p.id) = 1
       /\ cart.items[i].quantity = q1 + q2
       /\ cart.total = c0.total + (p.price * (q1 + q2))
       /\ cart = GuestAdd(GuestAdd(c0, p, q2), p, q1)

\* C4 witness: two adds of one product with different quantities, in a cart that
\* also holds the other product.
C4_Witness ==
  /\ last.op = "add" /\ last.pop = "add"
  /\ Find(last.ppre.items, last.pid) = 0
  /\ last.ppre.items # <<>>
  /\ last.pqty = 1 /\ last.qty = 2

\* C5: updateQuantity(productId, q) with q >= 1 on a product that has a line sets
\* that line's quantity to q, leaves every other line (and the line's other
\* fields) unchanged, and recomputes the total.
C5_UpdateSetsQuantity ==
  (last.op = "update" /\ last.qty >= 1 /\ Find(last.pre.items, last.pid) # 0) =>
    LET i == Find(last.pre.items, last.pid)
    IN /\ Len(cart.items) = Len(last.pre.items)
       /\ cart.items[i] = [last.pre.items[i] EXCEPT !.quantity = last.qty]
       /\ \A j \in 1 .. Len(cart.items) : j # i => cart.items[j] = last.pre.items[j]
       /\ cart.total = LineSum(cart.items)

\* C5 witness: the quantity of one line of a two-line cart was changed.
C5_Witness ==
  /\ last.op = "update" /\ last.qty >= 1
  /\ Find(last.pre.items, last.pid) # 0
  /\ Len(last.pre.items) = 2
  /\ last.pre.items[Find(last.pre.items, last.pid)].quantity > last.qty

\* C6: updateQuantity(productId, q) with q <= 0 completes and leaves the cart
\* that removeFromCart(productId) gives on the same cart: no line for productId.
C6_UpdateNonPositiveRemoves ==
  (last.op = "update" /\ last.qty <= 0) =>
    /\ cart = GuestRemove(last.pre, last.pid)
    /\ LinesOf(cart, last.pid) = 0
    /\ ~cartLoading

\* C6 witness: updateQuantity(productId, 0) ran on a cart with a line for it.
C6_Witness ==
  /\ last.op = "update" /\ last.qty = 0
  /\ Find(last.pre.items, last.pid) # 0
  /\ cart.items # <<>>

\* C7: updateQuantity(productId, q) for a product with no line leaves the cart
\* (items and total) as it was and creates no line.
C7_UpdateMissingIsNoOp ==
  (last.op = "update" /\ Find(last.pre.items, last.pid) = 0) =>
    /\ cart = last.pre
    /\ LinesOf(cart, last.pid) = 0

\* C7 witness: updateQuantity with a positive quantity ran for a product that
\* had no line, in a cart that is not empty.
C7_Witness ==
  /\ last.op = "update" /\ last.qty >= 1
  /\ Find(last.pre.items, last.pid) = 0
  /\ last.pre.items # <<>>

\* C8: removeFromCart of a product that has no line leaves the cart as it was,
\* so removing a product twice gives the cart that removing it once gave.
C8_RemoveIdempotent ==
  /\ (last.op = "remove" /\ Find(last.pre.items, last.pid) = 0) => cart = last.pre
  /\ (last.op = "remove" /\ last.pop = "remove") =>
        cart = GuestRemove(last.ppre, last.pid)

\* C8 witness: a product was removed twice in a row from a cart that held it and
\* the other product.
C8_Witness ==
  /\ last.op = "remove" /\ last.pop = "remove"
  /\ Find(last.ppre.items, last.pid) # 0
  /\ cart.items # <<>>

\* C9: a checkout of a non-empty cart yields an order whose total is the
\* pre-checkout cart's, afterwards the cart has items = [] and total = 0, and a
\* load of the cart also gives the empty cart (guest: loadCart on this page and
\* on a fresh page; server: the cart GET /cart returns).
C9_CheckoutConsumes ==
  /\ (last.op = "checkout" /\ last.pre.items # <<>>) =>
        /\ last.order.total = last.pre.total
        /\ last.order.total = LineSum(last.pre.items)
        /\ cart = EmptyCart
        /\ GuestLoad(cart, guestCart) = EmptyCart
        /\ GuestLoad(EmptyCart, guestCart) = EmptyCart
  /\ last.op = "srvCheckout" =>
        /\ last.order.total = LineSum(last.pre.items)
        /\ minted.total = last.pre.total
        /\ minted.lines = last.pre.items
        /\ serverCart = EmptyCart
  /\ last.op = "recvCheckout" => cart = EmptyCart

\* C9 witness: an anonymous checkout of a stored two-line cart was made from the
\* cart page.
C9_Witness ==
  /\ last.op = "checkout"
  /\ Len(last.pre.items) = 2
  /\ orderComplete = last.order
  /\ orderComplete.total > 0

\* C10 (as claimed): no order confirmation is returned for an empty cart: a
\* checkout that returned one ran on a cart with lines, and the server mints an
\* order only from a cart with lines.
C10_NoOrderForEmptyCart ==
  /\ last.op = "checkout" => last.pre.items # <<>>
  /\ last.op = "srvCheckout" => last.pre.items # <<>>

\* C10 (as claimed) fails on checkout() in an anonymous session with the initial
\* cart: the guest branch returns { order_id: 'guest-...', total: 0, message }.

\* C11: the total of the order a checkout returns is the pre-tax subtotal, the
\* sum of price x quantity over the lines of the cart checked out; it is not the
\* total the order summary displays (8% tax added); the Order the server mints
\* has the sum over its own lines as total.
C11_OrderTotalIsSubtotal ==
  /\ last.op \in {"checkout", "srvCheckout"} =>
        /\ last.order.total = LineSum(last.pre.items)
        /\ last.pre.total # 0 => last.order.total # TotalShown(last.pre)
  /\ last.op = "srvCheckout" => minted.total = LineSum(minted.lines)

\* C11 witness: a one-line cart of two units was checked out from the cart page,
\* where the summary displayed a tax and a larger total.
C11_Witness ==
  /\ last.op = "checkout"
  /\ Len(last.pre.items) = 1
  /\ last.pre.items[1].quantity = 2
  /\ orderComplete = last.order
  /\ TaxShown(last.pre) > 0
  /\ TotalShown(last.pre) = last.order.total + TaxShown(last.pre)

\* Totals the scripted session is to show after each call, in cents
ScenarioTotals == << 4998, 8497, 10996, 7497, 9996, 0 >>

\* C12: from the empty cart, with A at 24.99 and B at 34.99, the calls add(A,2),
\* add(B,1), updateQuantity(A,3), removeFromCart(B), add(A,1), checkout give the
\* totals 49.98, 84.97, 109.96, 74.97, 99.96 in turn; A's quantity is 4 before
\* the checkout, the order total is 99.96 and the cart is empty afterwards.
C12_Scenario ==
  /\ script \in 1 .. Len(ScenarioSteps) => cart.total = ScenarioTotals[script]
  /\ script = 5 =>
        /\ Len(cart.items) = 1
        /\ cart.items[1].product_id = "A"
        /\ cart.items[1].quantity = 4
        /\ JSONparse(guestCart) = cart
  /\ script = 6 =>
        /\ last.order.total = 9996
        /\ cart = EmptyCart
        /\ guestCart = NoText

\* C12 witness: the whole script has run and the order was returned to the cart
\* page.
C12_Witness ==
  /\ script = 6
  /\ last.op = "checkout"
  /\ last.pre.items[1].quantity = 4
  /\ orderComplete = last.order

\* The cart that merging the given lines into cart c gives, each line by the rule
\* of addToCart (quantities add for a product c already has, the line is appended
\* otherwise)
RECURSIVE MergeLines(_, _)
MergeLines(c, lines) ==
  IF lines = <<>> THEN c
  ELSE MergeLines(GuestAdd(c, [id |-> Head(lines).product_id,
                               name |-> Head(lines).name,
                               price |-> Head(lines).price],
                           Head(lines).quantity),
                  Tail(lines))

\* C13 (as claimed): the cart an authenticated session loads after a successful
\* sign-in or registration is the account's cart with the anonymous cart's lines
\* merged into it; an anonymous cart of one line (X, 2) and an empty account cart
\* give exactly that line at quantity 2.
C13_MergeOnSignIn ==
  last.op = "signInLoaded" =>
    /\ cart = MergeLines(last.ppre, last.pre.items)
    /\ (last.ppre = EmptyCart /\ Len(last.pre.items) = 1) =>
          /\ Len(cart.items) = 1
          /\ cart.items[1] = last.pre.items[1]

\* C13 (as claimed) fails on addToCart(A, 2) in an anonymous session followed by
\* a successful login: login and loadCart never send the stored cart to the
\* server, so the cart loaded is the account's own (empty) cart.

\* C14 (as claimed): whenever the session is authenticated (user and token set,
\* which follows a successful sign-in or registration) the 'guestCart' key holds
\* no cart.
C14_GuestStoreCleared ==
  Authenticated => guestCart = NoText

\* C14 (as claimed) fails on addToCart(A, 1) in an anonymous session followed by
\* a successful login: nothing on the sign-in path removes 'guestCart'.

\* Product ids of the lines of cart c
ProductsIn(c) == {c.items[i].product_id : i \in 1 .. Len(c.items)}

\* C15 (as claimed): after a logout of an authenticated session the current cart
\* has no lines (neither those of the cart the session showed nor those of a
\* guest cart stored earlier), and the anonymous operation that follows writes
\* to 'guestCart' no line of the cart the session showed, other than a line of
\* the product it adds.
C15_LogoutKeepsNoCart ==
  /\ last.op = "logout" => cart.items = <<>>
  /\ (last.pop = "logout" /\ last.op \in {"add", "update", "remove"}
        /\ guestCart # NoText) =>
        ProductsIn(JSONparse(guestCart)) \cap ProductsIn(last.ppre)
          \subseteq (IF last.op = "add" THEN {last.pid} ELSE {})

\* C15 (as claimed) fails on a logout of a session that shows the account's cart
\* (logout resets user and token only, the cart state is kept), and on a logout
\* with a guest cart in the store (loadCart brings it back).

\* The step is a call of the cart context (every call is counted)
IsCall == inputs' # inputs

\* C16 (as claimed): cart mutations started before the previous one's result is
\* visible are serialized: each call yields the cart that its operation gives on
\* the cart state left by the call before it, so no mutation is lost.
C16_MutationsSerialized ==
  [][ /\ (IsCall /\ last'.op = "add") =>
            cart' = GuestAdd(cart, ProductOf(last'.pid), last'.qty)
      /\ (IsCall /\ last'.op = "update") =>
            cart' = GuestUpdate(cart, last'.pid, last'.qty)
      /\ (IsCall /\ last'.op = "remove") =>
            cart' = GuestRemove(cart, last'.pid) ]_vars

\* C16 (as claimed) fails on removeFromCart(A) followed by removeFromCart(B)
\* from the handlers of one render of the cart A x 1, B x 1: the second filters
\* the closure's items, and the cart set is A x 1.

\* C17 (as claimed): the contents of a cart are turned into at most one order:
\* a checkout called right after a checkout that consumed a cart with lines
\* (whether or not the clearing was rendered in between) finds no lines to turn
\* into an order.
C17_CheckoutOnce ==
  [][ (IsCall /\ last.op = "checkout" /\ last.pre.items # <<>>
         /\ last'.op = "checkout") =>
        last'.pre.items = <<>> ]_vars

\* C17 (as claimed) fails on checkout() called twice from the handlers of one
\* render of the cart A x 1: both calls read the closure's cart and each returns
\* an order of total 24.99.

\* C18: the name and price of a cart line are those taken when the line was
\* created: after an add (also of a product already in the cart, given with a
\* changed price), an update or a removal, every line of the cart before whose
\* product is still in the cart has the name and price it had.
C18_SnapshotKept ==
  last.op \in {"add", "update", "remove"} =>
    \A i \in 1 .. Len(last.pre.items) :
      LET old == last.pre.items[i]
          j == Find(cart.items, old.product_id)
      IN j # 0 => /\ cart.items[j].price = old.price
                  /\ cart.items[j].name = old.name
                  /\ JSONparse(guestCart).items[j].price = old.price

\* C18 witness: a product that has a line was added again with a price other
\* than the line's, in a cart of two lines.
C18_Witness ==
  /\ last.op = "add"
  /\ Find(last.pre.items, last.pid) # 0
  /\ last.price # last.pre.items[Find(last.pre.items, last.pid)].price
  /\ Len(cart.items) = 2
  /\ cart.total # last.pre.total

\* C19 (as claimed): addToCart with a quantity that is not >= 1 is rejected: the
\* call leaves the cart state and the stored cart as they were and creates or
\* alters no line.
C19_AddRejectsNonPositive ==
  [][ (last'.op = "add" /\ last'.qty < 1) =>
        /\ cart' = cart
        /\ guestCart' = guestCart ]_vars

\* C19 (as claimed) fails on addToCart(A, 0) in an anonymous session: the guest
\* branch has no check of the quantity and pushes, sets and stores the line
\* A x 0.

\* C20: an add that fails (the request fails or is rejected, whatever the
\* reason) changes nothing: sending it, its rejection and the arrival of the
\* failure each leave the cart state, the stored guest cart, the server's cart
\* and the stored token as they were.
C20_FailedAddNoMutation ==
  [][ last'.op \in {"addSent", "addRejected", "addFailed"} =>
        /\ cart' = cart
        /\ guestCart' = guestCart
        /\ serverCart' = serverCart
        /\ lsToken' = lsToken ]_vars

\* C20 witness: the failure of an add reached an authenticated page that shows a
\* cart with a line.
C20_Witness ==
  /\ last.op = "addFailed"
  /\ Authenticated
  /\ cart.items # <<>>
  /\ cart = serverCart

\* C21 (as claimed): a cart mutation of a session that holds a token but has no
\* resolved identity is never applied to the guest cart or written to
\* 'guestCart': the guest branch of add, update or remove runs only in a session
\* without a token.
C21_NoFallbackToGuest ==
  last.op \in {"add", "update", "remove"} => token = Null

\* C21 (as claimed) fails on addToCart(A, 1) made after a successful login has
\* set the token and before /auth/me has set the user: user && token is false and
\* the guest branch runs.

\* C22 (as claimed): loading the cart of an owner that has no stored cart yields
\* the empty cart. A change of user or token runs loadCart; when the session is
\* anonymous afterwards and nothing is stored under 'guestCart', the cart is the
\* empty cart, which is also what the next load of the same store returns.
C22_LoadOfNothingIsEmpty ==
  [][((user' # user \/ token' # token)
        /\ ~(user' # Null /\ token' # Null)
        /\ guestCart' = NoText)
       => (cart' = EmptyCart /\ GuestLoad(EmptyCart, guestCart') = cart')]_vars

\* C22 (as claimed) fails on logout() of a session whose cart state holds the
\* account's lines: loadCart finds no 'guestCart' and leaves the cart state as it
\* is.

\* C23: an anonymous checkout is local only: the call sends no request, leaves
\* the server's cart and order history alone, returns an order tagged 'guest-'
\* that carries the cart's total and a message, and leaves the cart state empty
\* and 'guestCart' removed.
C23_GuestCheckoutLocal ==
  [][(IsCall /\ last'.op = "checkout")
       => /\ net' = net
          /\ orders' = orders
          /\ serverCart' = serverCart
          /\ minted' = minted
          /\ last'.order.order_id = "guest-"
          /\ last'.order.total = rendered.total
          /\ last'.order.message # ""
          /\ cart' = EmptyCart
          /\ guestCart' = NoText]_vars

\* C23 witness: a one-line cart was checked out anonymously while the server
\* held a cart with lines and no order.
C23_Witness ==
  /\ last.op = "checkout"
  /\ Len(last.pre.items) = 1
  /\ last.order.total = last.pre.total
  /\ serverCart.items # <<>>
  /\ orders = 0
  /\ user = Null
  /\ guestCart = NoText

\* C24: in anonymous mode the local store mirrors the cart: after every guest
\* add, update or remove the value under 'guestCart' parses to the cart state
\* held by the provider, and after a guest checkout the key is absent.
C24_StoreMirrorsCart ==
  /\ last.op \in {"add", "update", "remove"} =>
        /\ guestCart # NoText
        /\ JSONparse(guestCart) = cart
  /\ last.op = "checkout" => guestCart = NoText

\* C24 witness: a guest remove left a cart with a line, and the store holds
\* exactly that cart and no longer the one before the call.
C24_Witness ==
  /\ last.op = "remove"
  /\ cart.items # <<>>
  /\ last.pre # cart
  /\ guestCart = JSONstringify(cart)
  /\ guestCart # JSONstringify(last.pre)

\* C25: the backend is chosen per operation from user && token. A cart call
\* that went to the server was made with both set and left 'guestCart' and the
\* cart state alone; a cart call that ran locally was made without both and sent
\* nothing; no response to a server call writes 'guestCart'.
C25_BackendPerOperation ==
  [][/\ (IsCall /\ last'.op \in {"addSent", "updateSent", "removeSent", "checkoutSent"})
        => /\ user # Null /\ token # Null
           /\ guestCart' = guestCart
           /\ cart' = cart
     /\ (IsCall /\ last'.op \in {"add", "update", "remove", "checkout"})
        => /\ user = Null \/ token = Null
           /\ net' = net
           /\ serverCart' = serverCart
     /\ (~IsCall /\ last'.op \in {"cartResponse", "signInLoaded", "addFailed",
                                    "recvCheckout", "checkoutFailed"})
        => guestCart' = guestCart]_vars

\* C25 witness: an update was sent to the server by a session that still has a
\* guest cart stored, different from the cart it shows.
C25_Witness ==
  /\ last.op = "updateSent"
  /\ guestCart # NoText
  /\ guestCart # JSONstringify(cart)
  /\ BagCardinality(net) >= 1

\* C26: a failed authenticated checkout leaves the cart as it was: the cart
\* state, the server's cart and 'guestCart' are unchanged, no order is shown
\* (orderComplete keeps its value), and the page's checkout is no longer
\* pending. The cart state is cleared by a checkout answer only when an order
\* came back.
C26_FailedCheckoutKeepsCart ==
  [][/\ last'.op = "checkoutFailed"
        => /\ cart' = cart
           /\ serverCart' = serverCart
           /\ guestCart' = guestCart
           /\ orderComplete' = orderComplete
           /\ orders' = orders
           /\ last'.order = NoOrder
     /\ (last'.op = "recvCheckout" /\ cart' # cart)
        => (last'.order # NoOrder /\ cart' = EmptyCart)]_vars

\* C26 witness: a checkout made from the cart page failed; the cart still shows
\* its line, no confirmation is shown and the button is enabled again.
C26_Witness ==
  /\ last.op = "checkoutFailed"
  /\ cart.items # <<>>
  /\ cart = last.pre
  /\ orderComplete = NoOrder
  /\ ~checkoutLoading
  /\ user # Null

\* C27 (as claimed): once every cart request in flight has been answered, the
\* cart state equals the server's latest cart: when a successful cart response
\* has just been applied in an authenticated session and nothing is in flight
\* any more, the cart state is the server's cart.
C27_SettlesOnLatest ==
  (/\ last.op \in {"cartResponse", "signInLoaded"}
   /\ user # Null /\ token # Null
   /\ net = EmptyBag)
    => cart = serverCart

\* C27 (as claimed) fails when two requests are in flight and the response to
\* the first one is delivered after the response to the second one.

\* C28 (as claimed): a response to an authenticated cart request that arrives
\* when the session is anonymous is not applied to the cart state.
C28_LateResponseDropped ==
  [][(last'.op = "cartResponse" /\ (user = Null \/ token = Null))
       => cart' = cart]_vars

\* C28 (as claimed) fails on logout() made while addToCart's POST is in flight:
\* its continuation calls setCart with the server's snapshot.

\* C29 (as claimed): cartLoading is TRUE in every state in which a mutation
\* request of the current page is in flight.
C29_LoadingWhileInFlight ==
  (\E m \in BagToSet(net) :
     m.kind \in {"add", "update", "remove"} /\ m.live) => cartLoading

\* C29 (as claimed) fails when two mutations overlap: the first response sets
\* cartLoading to FALSE while the second request is still in flight.

\* C30 (as claimed): a user is set only while a token is set.
C30_UserImpliesToken ==
  user # Null => token # Null

\* C30 (as claimed) fails when logout runs while a token check is in flight:
\* the check's answer sets the user after the token was set to null.

====
